---------------------------- MODULE Spec2Model ----------------------------
(***************************************************************************)
(* Media Relay Core of the food-delivery-robot voice client.               *)
(*                                                                         *)
(*   RobotTTSBridge       (simple-voice-client/src/App.tsx)                *)
(*       the Transcript Debounce Relay: specification SpecRelay            *)
(*   useRobotAudioBridge  (simple-voice-client/src/RobotAudioBridge.tsx)   *)
(*       the Relay Connection Manager and the Audio Frame Pipeline:        *)
(*       specification Spec                                                *)
(*                                                                         *)
(* Both components run on the single JavaScript event loop: every action   *)
(* below is one task of that loop (a React effect run, a timer callback,   *)
(* a socket event handler, an audio callback) and is atomic.               *)
(***************************************************************************)
EXTENDS Integers, Sequences, FiniteSets, TLC

(***************************************************************************)
(* Bounds of the model.                                                    *)
(***************************************************************************)
\* longest transcript array handed to the relay in one update
MaxBatch == 2
\* granularity of the clock, in milliseconds
TickMs == 500
\* sockets that may be alive (not yet closed) at the same time
MaxSockets == 2
\* audio frames captured in one run
MaxFrames == 2
\* samples per captured frame (the ScriptProcessorNode buffer, shortened)
FrameLen == 7
\* payload messages sent by direct calls of sendAudioToRobot on one socket
MaxSends == 3
\* longest array handed to the encoder on its own
MaxArray == 2
\* longest inputBuffer handed to the resampler on its own
MaxLength == 2

(***************************************************************************)
(* Program constants.                                                      *)
(***************************************************************************)
\* setTimeout(..., 1000)
DEBOUNCE_MS == 1000
\* text.length < 2
MIN_TEXT_LENGTH == 2
\* const TARGET_SAMPLE_RATE = 16000
TARGET_SAMPLE_RATE == 16000
\* new AudioContext({ sampleRate: 48000 })
CONTEXT_SAMPLE_RATE == 48000
\* maxSample < 0.0001, as the fraction 1 / SILENCE_INV
SILENCE_INV == 10000
\* bytesSentRef.current % 51200
CHECKPOINT_BYTES == 51200

VARIABLES
    \* ---- RobotTTSBridge ----
    relayMounted,   \* the component is mounted
    sentTexts,      \* sentTextsRef.current
    pendingText,    \* pendingTextRef.current
    timerRef,       \* debounceTimerRef.current: a timer id, 0 for null
    timers,         \* the pending timeouts: timer id -> ms since it was set
    hasCleanup,     \* the last effect run returned its cleanup function
    dispatched,     \* the texts POSTed to /speak, in order
    inflight,       \* the texts whose fetch has not settled
    failedTexts,    \* the texts whose fetch was rejected
    burst,          \* history: the run of qualifying updates now in its window
    closed,         \* history: the burst ended by the last timer expiry
    lastUpdate,     \* history: the effect run of the last step, if it was one
    \* ---- useRobotAudioBridge ----
    enabled,        \* the hook's effects have run with enabled = true
    subscribed,     \* the remote audio tracks subscribed in the room
    wsRef,          \* wsRef.current: a socket id, 0 for null
    isConnecting,   \* isConnectingRef.current
    sockets,        \* the WebSockets created and not yet closed, by id
    dispatching,    \* the socket whose close event follows its error event
    connected,      \* state.connected
    error,          \* state.error
    bytesSent,      \* state.bytesSent
    bytesSentRef,   \* bytesSentRef.current
    hasProcessor,   \* hasProcessorRef.current
    processorTrack, \* the track feeding processorRef.current, or NoTrack
    processors,     \* the tracks whose processor node is connected
    audioContext,   \* audioContextRef.current is set
    captured,       \* history: the frames delivered to onaudioprocess
    checkpoints,    \* history: the telemetry checkpoints logged so far
    wireBytes,      \* history: the payload bytes put on any wire so far
    inbound,        \* history: how the last step's onmessage ended
    pcmIn,          \* the array handed to float32ToPCM16 on its own
    pcmOut,         \* the bytes of the ArrayBuffer it returned
    resampling,     \* one call of resampleAudio on its own: its locals
    lastConnect,    \* history: what the last step's connectToRobot() did
    lastAttach      \* history: what the last step's processRemoteAudioTrack() did

relayVars == <<relayMounted, sentTexts, pendingText, timerRef, timers,
               hasCleanup, dispatched, inflight, failedTexts, burst, closed,
               lastUpdate>>

connVars == <<wsRef, isConnecting, sockets, connected, error, bytesSent,
              bytesSentRef>>

bridgeVars == <<enabled, subscribed, wsRef, isConnecting, sockets, dispatching,
                connected, error, bytesSent, bytesSentRef, hasProcessor,
                processorTrack, processors, audioContext, captured,
                checkpoints, wireBytes, inbound, pcmIn, pcmOut,
                resampling, lastConnect, lastAttach>>

vars == <<relayVars, bridgeVars>>

(***************************************************************************)
(* Texts are sequences of characters, so that trim() and length are        *)
(* computed, not assumed.                                                  *)
(***************************************************************************)
Whitespace == {" "}

EmptyText == <<>>

\* the utterance texts the remote session and the local user may produce
TextInputs ==
    { <<>>, <<" ">>, <<"a">>,
      <<"a", "b">>, <<" ", "a", "b", " ">>, <<"a", "b", "c">>,
      <<"a", "b", "c", "d">> }

LOCAL_IDENTITY == "user"
REMOTE_IDENTITY == "agent"

\* a transcription: participantInfo.identity and text
Transcriptions ==
    [identity : {REMOTE_IDENTITY}, text : TextInputs]
        \cup [identity : {LOCAL_IDENTITY},
              text : {<<"a", "b", "c", "d">>, <<"x", "y">>}]

RECURSIVE SeqsUpTo(_, _)
SeqsUpTo(S, n) ==
    IF n = 0 THEN {<<>>}
    ELSE LET shorter == SeqsUpTo(S, n - 1)
         IN  shorter \cup {Append(s, x) : s \in shorter, x \in S}

Batches == SeqsUpTo(Transcriptions, MaxBatch)

RECURSIVE TrimStart(_)
TrimStart(s) ==
    IF s # <<>> /\ Head(s) \in Whitespace THEN TrimStart(Tail(s)) ELSE s

RECURSIVE TrimEnd(_)
TrimEnd(s) ==
    IF s # <<>> /\ s[Len(s)] \in Whitespace
    THEN TrimEnd(SubSeq(s, 1, Len(s) - 1))
    ELSE s

\* String.prototype.trim
Trim(s) == TrimEnd(TrimStart(s))

Min(a, b) == IF a < b THEN a ELSE b

(***************************************************************************)
(* Timers: setTimeout / clearTimeout of the event loop.                    *)
(***************************************************************************)
NoTimers == [id \in {} |-> 0]

\* mutant: clearTimeout cancels nothing
ClearTimeoutNothing(ts, id) == ts

\* clearTimeout(id): a fired, cleared or null id is ignored
ClearTimeout(ts, id) == [t \in (DOMAIN ts) \ {id} |-> ts[t]]

FreshTimerId(ts) == CHOOSE n \in 1..(Cardinality(DOMAIN ts) + 1) : n \notin DOMAIN ts

\* setTimeout(cb, DEBOUNCE_MS) under a fresh id
SetTimeout(ts, id) == [t \in (DOMAIN ts) \cup {id} |-> IF t = id THEN 0 ELSE ts[t]]

(***************************************************************************)
(* RobotTTSBridge: the effect on [transcriptions, localParticipant.identity]*)
(***************************************************************************)
\* mutant: the local participant's events are not filtered out
AgentTranscriptionsUnfiltered(batch) == batch

\* transcriptions.filter(t => t.participantInfo.identity !== localParticipant.identity)
AgentTranscriptions(batch) ==
    SelectSeq(batch, LAMBDA t : t.identity # LOCAL_IDENTITY)

\* mutant: the first remote event is taken, not the last
LatestAgentTextFirst(batch) == Trim(AgentTranscriptions(batch)[1].text)

\* agentTranscriptions[agentTranscriptions.length - 1].text?.trim()
LatestAgentText(batch) ==
    LET agent == AgentTranscriptions(batch)
    IN  Trim(agent[Len(agent)].text)

\* the three early returns of the effect body
Qualifies(batch, sent) ==
    /\ Len(AgentTranscriptions(batch)) # 0
    /\ LET text == LatestAgentText(batch)
       IN  /\ text # EmptyText
           /\ ~(Len(text) < MIN_TEXT_LENGTH)
           /\ text \notin sent

\* mutant: the effect returns no cleanup
EffectCleanupMissing(ts, ref, returned) == ts

\* the cleanup returned by the previous effect run, which React calls before
\* it runs the effect again and when the component unmounts
EffectCleanup(ts, ref, returned) ==
    IF returned /\ ref # 0 THEN ClearTimeout(ts, ref) ELSE ts

\* if (debounceTimerRef.current) clearTimeout(debounceTimerRef.current)
ClearPrevious(ts, ref) ==
    IF ref # 0 THEN ClearTimeout(ts, ref) ELSE ts

\* mutant: the dispatched text is not recorded
MarkSentForgotten(sent, text) == sent

\* sentTextsRef.current.add(currentText)
MarkSent(sent, text) == sent \cup {text}

\* mutant: the membership test is inverted
ShouldDispatchInverted(text, sent) == text # EmptyText /\ text \in sent

\* currentText && !sentTextsRef.current.has(currentText)
ShouldDispatch(text, sent) == text # EmptyText /\ text \notin sent

NoBurst == [texts |-> {}, last |-> EmptyText, base |-> 0]
NoneClosed == [texts |-> {}, last |-> EmptyText, base |-> 0, after |-> 0]
NoUpdate == [kind |-> "none", remote |-> FALSE, last |-> EmptyText,
             local |-> {}]

\* the positions of a transcript array that hold events of other participants
RemoteIndexes(batch) ==
    {k \in 1..Len(batch) : batch[k].identity # LOCAL_IDENTITY}

\* what an effect run was given: whether the array held a remote event and
\* the text, as received, of the last one
UpdateSeen(batch, kind) ==
    LET local == {batch[i].text : i \in (1..Len(batch)) \ RemoteIndexes(batch)}
    IN  IF RemoteIndexes(batch) = {}
        THEN [kind |-> kind, remote |-> FALSE, last |-> EmptyText,
              local |-> local]
        ELSE LET k == CHOOSE i \in RemoteIndexes(batch) :
                          \A j \in RemoteIndexes(batch) : j <= i
             IN  [kind |-> kind, remote |-> TRUE, last |-> batch[k].text,
                  local |-> local]

\* the previous qualifying update armed the timer less than DEBOUNCE_MS ago
InWindow ==
    /\ burst.texts # {}
    /\ timerRef \in DOMAIN timers
    /\ timers[timerRef] < DEBOUNCE_MS

RelayInit ==
    /\ relayMounted = TRUE
    /\ sentTexts = {}
    /\ pendingText = EmptyText
    /\ timerRef = 0
    /\ timers = NoTimers
    /\ hasCleanup = FALSE
    /\ dispatched = <<>>
    /\ inflight = {}
    /\ failedTexts = {}
    /\ burst = NoBurst
    /\ closed = NoneClosed
    /\ lastUpdate = NoUpdate

\* useTranscriptions() returned a new array: cleanup of the previous run,
\* then the effect body
TranscriptUpdate(batch) ==
    /\ relayMounted
    /\ LET cleaned == EffectCleanup(timers, timerRef, hasCleanup)
       IN  IF Qualifies(batch, sentTexts)
           THEN LET text == LatestAgentText(batch)
                    cleared == ClearPrevious(cleaned, timerRef)
                    id == FreshTimerId(cleared)
                IN  /\ pendingText' = text
                    /\ timers' = SetTimeout(cleared, id)
                    /\ timerRef' = id
                    /\ hasCleanup' = TRUE
                    /\ burst' = IF InWindow
                                THEN [burst EXCEPT !.texts = @ \cup {text},
                                                   !.last = text]
                                ELSE [texts |-> {text}, last |-> text,
                                      base |-> Len(dispatched)]
           ELSE /\ timers' = cleaned
                /\ hasCleanup' = FALSE
                /\ burst' = NoBurst
                /\ UNCHANGED <<pendingText, timerRef>>
    /\ lastUpdate' = UpdateSeen(batch, IF Qualifies(batch, sentTexts)
                                       THEN "qualified" ELSE "ignored")
    /\ UNCHANGED <<relayMounted, sentTexts, dispatched, inflight, failedTexts,
                   closed>>
    /\ UNCHANGED bridgeVars

\* time passes for every pending timeout
Tick ==
    /\ \E id \in DOMAIN timers : timers[id] < DEBOUNCE_MS
    /\ timers' = [id \in DOMAIN timers |-> Min(timers[id] + TickMs, DEBOUNCE_MS)]
    /\ lastUpdate' = NoUpdate
    /\ UNCHANGED <<relayMounted, sentTexts, pendingText, timerRef, hasCleanup,
                   dispatched, inflight, failedTexts, burst, closed>>
    /\ UNCHANGED bridgeVars

\* the setTimeout callback
TimerExpired(id) ==
    /\ id \in DOMAIN timers
    /\ timers[id] >= DEBOUNCE_MS
    /\ timers' = ClearTimeout(timers, id)
    /\ LET currentText == pendingText
       IN  IF ShouldDispatch(currentText, sentTexts)
           THEN /\ sentTexts' = MarkSent(sentTexts, currentText)
                /\ dispatched' = Append(dispatched, currentText)
                /\ inflight' = inflight \cup {currentText}
           ELSE UNCHANGED <<sentTexts, dispatched, inflight>>
    /\ closed' = [texts |-> burst.texts, last |-> burst.last,
                  base |-> burst.base, after |-> Len(dispatched')]
    /\ burst' = NoBurst
    /\ lastUpdate' = NoUpdate
    /\ UNCHANGED <<relayMounted, pendingText, timerRef, hasCleanup, failedTexts>>
    /\ UNCHANGED bridgeVars

\* mutant: a rejected dispatch takes its text out of the set again
SentAfterSettleRetry(sent, text, ok) == IF ok THEN sent ELSE sent \ {text}

\* .then and .catch log and leave sentTextsRef alone
SentAfterSettle(sent, text, ok) == sent

\* the fetch settles: .then logs the status, .catch logs the error
DispatchSettled(text, ok) ==
    /\ text \in inflight
    /\ inflight' = inflight \ {text}
    /\ failedTexts' = IF ok THEN failedTexts ELSE failedTexts \cup {text}
    /\ sentTexts' = SentAfterSettle(sentTexts, text, ok)
    /\ lastUpdate' = NoUpdate
    /\ UNCHANGED <<relayMounted, pendingText, timerRef, timers,
                   hasCleanup, dispatched, burst, closed>>
    /\ UNCHANGED bridgeVars

\* the component unmounts: React calls the last cleanup
RelayUnmount ==
    /\ relayMounted
    /\ relayMounted' = FALSE
    /\ timers' = EffectCleanup(timers, timerRef, hasCleanup)
    /\ hasCleanup' = FALSE
    /\ lastUpdate' = NoUpdate
    /\ UNCHANGED <<sentTexts, pendingText, timerRef, dispatched, inflight,
                   failedTexts, burst, closed>>
    /\ UNCHANGED bridgeVars

NextRelay ==
    \/ \E batch \in Batches : TranscriptUpdate(batch)
    \/ Tick
    \/ \E id \in DOMAIN timers : TimerExpired(id)
    \/ \E text \in inflight, ok \in BOOLEAN : DispatchSettled(text, ok)
    \/ RelayUnmount

(***************************************************************************)
(* Audio samples.  getChannelData returns a Float32Array; the model draws  *)
(* samples from the multiples of 2^-15, which are all Float32 values, and  *)
(* writes a sample as its integer count of such units.  0.0001 is not a    *)
(* Float32 value (its two Float32 neighbours are 13743895 * 2^-37, below,  *)
(* and 13743896 * 2^-37, above), so no sample of any frame equals it.      *)
(***************************************************************************)
SAMPLE_ONE == 2 ^ 15

Abs(x) == IF x < 0 THEN -x ELSE x

Max(a, b) == IF a > b THEN a ELSE b

\* a / b rounded toward zero, as the conversion of a number to an integer does
TruncDiv(a, b) == IF a >= 0 THEN a \div b ELSE -((-a) \div b)

ConstFrame(v) == [i \in 1..FrameLen |-> v]

\* the frames the capture collaborator delivers: digital silence, a frame
\* whose peak is the largest sample not above 0.0001, and a frame whose
\* peak is the smallest sample above it
FrameInputs ==
    { ConstFrame(0),
      [i \in 1..FrameLen |-> IF i % 2 = 0 THEN -3 ELSE 2],
      [i \in 1..FrameLen |-> IF i % 3 = 1 THEN 4 ELSE -1] }

\* the loop over inputData that computes maxSample
MaxSample(inputData) ==
    LET mags == {Abs(inputData[i]) : i \in 1..Len(inputData)} \cup {0}
    IN  CHOOSE m \in mags : \A x \in mags : x <= m

\* mutant: the threshold is written with one more zero (0.00001)
IsSilentLowerThreshold(maxSample) == maxSample * SILENCE_INV * 10 < SAMPLE_ONE

\* if (maxSample < 0.0001) return
IsSilent(maxSample) == maxSample * SILENCE_INV < SAMPLE_ONE

\* mutant: the output length is rounded up
OutputLengthCeil(length, inputSampleRate, outputSampleRate) ==
    (length * outputSampleRate + inputSampleRate - 1) \div inputSampleRate

\* Math.floor(inputBuffer.length / ratio), ratio = inputSampleRate /
\* outputSampleRate, in exact arithmetic: what the doubles of
\* OutputLengthOf give when the ratio is an integer, as it is in the one
\* call of the program (48000 / 16000)
OutputLength(length, inputSampleRate, outputSampleRate) ==
    (length * outputSampleRate) \div inputSampleRate

\* resampleAudio: outputLength = floor(length / (in / out)); output[i] is
\* the linear interpolation at srcIndex = i * in / out
resampleAudio(inputBuffer, inputSampleRate, outputSampleRate) ==
    IF inputSampleRate = outputSampleRate
    THEN inputBuffer
    ELSE LET outputLength ==
                 OutputLength(Len(inputBuffer), inputSampleRate,
                              outputSampleRate)
         IN  [i \in 1..outputLength |->
                LET pos == (i - 1) * inputSampleRate
                    srcIndexFloor == pos \div outputSampleRate
                    srcIndexCeil == Min(srcIndexFloor + 1, Len(inputBuffer) - 1)
                    rem == pos % outputSampleRate
                IN  (inputBuffer[srcIndexFloor + 1] * (outputSampleRate - rem)
                       + inputBuffer[srcIndexCeil + 1] * rem)
                    \div outputSampleRate]

\* DataView.setInt16: the value truncated, modulo 2^16, as a signed integer
ToInt16(val) ==
    LET u == val % 65536
    IN  IF u >= 32768 THEN u - 65536 ELSE u

\* mutant: negative samples are scaled by 0x7FFF as well
EncodeSampleSymmetric(x) ==
    LET s == Max(-SAMPLE_ONE, Min(SAMPLE_ONE, x))
    IN  ToInt16(TruncDiv(s * 32767, SAMPLE_ONE))

\* one sample of float32ToPCM16: clamp to [-1, 1], scale by 0x8000 below
\* zero and by 0x7FFF otherwise
EncodeSample(x) ==
    LET s == Max(-SAMPLE_ONE, Min(SAMPLE_ONE, x))
    IN  IF s < 0
        THEN ToInt16(TruncDiv(s * 32768, SAMPLE_ONE))
        ELSE ToInt16(TruncDiv(s * 32767, SAMPLE_ONE))

\* float32ToPCM16: the ArrayBuffer as its bytes, two per sample, low byte first
float32ToPCM16(float32Array) ==
    [j \in 1..(2 * Len(float32Array)) |->
        LET u == EncodeSample(float32Array[(j + 1) \div 2]) % 65536
        IN  IF j % 2 = 1 THEN u % 256 ELSE u \div 256]

(***************************************************************************)
(* IEEE 754 binary64.  The rates, lengths and indexes of resampleAudio are *)
(* JavaScript numbers: inputSampleRate / outputSampleRate, length / ratio  *)
(* and i * ratio are each rounded to 53 significant bits, to nearest, ties *)
(* to even.  A natural number of any size is the sequence of its digits    *)
(* in base 2^15, lowest first, without leading zeros; a double that is not *)
(* negative is m * 2^e with m such a number below 2^53.                    *)
(***************************************************************************)
MANTISSA_BITS == 53
LIMB_BITS == 15
LIMB == 2^LIMB_BITS

RECURSIVE BigOf(_)
BigOf(n) == IF n = 0 THEN <<>> ELSE <<n % LIMB>> \o BigOf(n \div LIMB)

RECURSIVE BigToInt(_)
BigToInt(x) == IF x = <<>> THEN 0 ELSE Head(x) + LIMB * BigToInt(Tail(x))

RECURSIVE BigTrim(_)
BigTrim(x) ==
    IF x = <<>> \/ x[Len(x)] # 0 THEN x ELSE BigTrim(SubSeq(x, 1, Len(x) - 1))

RECURSIVE IntBitLen(_)
IntBitLen(n) == IF n = 0 THEN 0 ELSE 1 + IntBitLen(n \div 2)

\* the number of significant bits of x
BigBitLen(x) ==
    IF x = <<>> THEN 0 ELSE LIMB_BITS * (Len(x) - 1) + IntBitLen(x[Len(x)])

\* bit k of x, the lowest being bit 1
BigBitAt(x, k) ==
    LET j == (k - 1) \div LIMB_BITS + 1
    IN  IF j > Len(x) THEN 0
        ELSE (x[j] \div 2^((k - 1) % LIMB_BITS)) % 2

\* x >= y
BigGeq(x, y) ==
    IF Len(x) # Len(y) THEN Len(x) > Len(y)
    ELSE LET diff == {k \in 1..Len(x) : x[k] # y[k]}
             top == CHOOSE k \in diff : \A j \in diff : j <= k
         IN  diff = {} \/ x[top] > y[top]

BigLimb(x, k) == IF k \in 1..Len(x) THEN x[k] ELSE 0

RECURSIVE BigAddFrom(_, _, _, _)
BigAddFrom(x, y, k, carry) ==
    IF k > Len(x) /\ k > Len(y)
    THEN IF carry = 0 THEN <<>> ELSE <<carry>>
    ELSE LET s == BigLimb(x, k) + BigLimb(y, k) + carry
         IN  <<s % LIMB>> \o BigAddFrom(x, y, k + 1, s \div LIMB)

BigAdd(x, y) == BigAddFrom(x, y, 1, 0)

RECURSIVE BigSubFrom(_, _, _, _)
BigSubFrom(x, y, k, borrow) ==
    IF k > Len(x) THEN <<>>
    ELSE LET d == BigLimb(x, k) - BigLimb(y, k) - borrow
         IN  <<d % LIMB>> \o BigSubFrom(x, y, k + 1, IF d < 0 THEN 1 ELSE 0)

\* x - y for x >= y
BigSub(x, y) == BigTrim(BigSubFrom(x, y, 1, 0))

RECURSIVE BigScaleFrom(_, _, _, _)
BigScaleFrom(x, digit, k, carry) ==
    IF k > Len(x)
    THEN IF carry = 0 THEN <<>> ELSE <<carry>>
    ELSE LET s == x[k] * digit + carry
         IN  <<s % LIMB>> \o BigScaleFrom(x, digit, k + 1, s \div LIMB)

\* x * digit for a digit below 2^15
BigScale(x, digit) == IF digit = 0 THEN <<>> ELSE BigScaleFrom(x, digit, 1, 0)

RECURSIVE BigMul(_, _)
BigMul(x, y) ==
    IF x = <<>> \/ y = <<>> THEN <<>>
    ELSE LET rest == BigMul(x, Tail(y))
         IN  BigAdd(BigScale(x, Head(y)),
                    IF rest = <<>> THEN <<>> ELSE <<0>> \o rest)

\* x * 2^s
BigShl(x, s) ==
    IF x = <<>> THEN <<>>
    ELSE [j \in 1..(s \div LIMB_BITS) |-> 0] \o BigScale(x, 2^(s % LIMB_BITS))

\* floor(x / 2^s)
BigShr(x, s) ==
    LET whole == SubSeq(x, s \div LIMB_BITS + 1, Len(x))
        r == s % LIMB_BITS
    IN  BigTrim([k \in 1..Len(whole) |->
                    whole[k] \div 2^r
                      + (BigLimb(whole, k + 1) % 2^r) * 2^(LIMB_BITS - r)])

\* long division, one bit of p at a time from the highest.  The quotient
\* and remainder once the bits of one digit of p, from its highest down to
\* bit j, have been taken after st
RECURSIVE BigDivDigit(_, _, _, _)
BigDivDigit(digit, q, j, st) ==
    IF j > LIMB_BITS THEN st
    ELSE LET prev == BigDivDigit(digit, q, j + 1, st)
             bit == (digit \div 2^(j - 1)) % 2
             r == BigAddFrom(prev.rem, prev.rem, 1, bit)
         IN  IF BigGeq(r, q)
             THEN [quo |-> BigAddFrom(prev.quo, prev.quo, 1, 1),
                   rem |-> BigSub(r, q)]
             ELSE [quo |-> BigAdd(prev.quo, prev.quo), rem |-> r]

\* the quotient and remainder once the digits of p from the highest down to
\* digit k have been taken; nothing is divided while they are all zero
RECURSIVE BigDivFrom(_, _, _)
BigDivFrom(p, q, k) ==
    IF k > Len(p) THEN [quo |-> <<>>, rem |-> <<>>]
    ELSE LET st == BigDivFrom(p, q, k + 1)
         IN  IF st.quo = <<>> /\ st.rem = <<>> /\ p[k] = 0
             THEN st
             ELSE BigDivDigit(p[k], q, 1, st)

\* quotient and remainder of p by q, q # 0
BigDivMod(p, q) == BigDivFrom(p, q, 1)

\* the double nearest to x * 2^e (plus a fraction of its last bit when
\* sticky), ties to even
RoundToDouble(x, e, sticky) ==
    IF BigBitLen(x) <= MANTISSA_BITS THEN [m |-> x, e |-> e]
    ELSE LET d == BigBitLen(x) - MANTISSA_BITS
             kept == BigShr(x, d)
             half == BigBitAt(x, d) = 1
             low == sticky \/ \E j \in 1..(d - 1) : BigBitAt(x, j) = 1
             up == half /\ (low \/ BigBitAt(kept, 1) = 1)
             m == IF up THEN BigAdd(kept, <<1>>) ELSE kept
         IN  IF BigBitLen(m) > MANTISSA_BITS
             THEN [m |-> BigShr(m, 1), e |-> e + d + 1]
             ELSE [m |-> m, e |-> e + d]

\* an integer as a double
DoubleOf(n) == [m |-> BigOf(n), e |-> 0]

\* x / y in doubles, y # 0
DoubleDiv(x, y) ==
    IF x.m = <<>> THEN x
    ELSE LET s == Max(0, MANTISSA_BITS + 2 + BigBitLen(y.m) - BigBitLen(x.m))
             qr == BigDivMod(BigShl(x.m, s), y.m)
         IN  RoundToDouble(qr.quo, x.e - y.e - s, qr.rem # <<>>)

\* x * y in doubles
DoubleMul(x, y) == RoundToDouble(BigMul(x.m, y.m), x.e + y.e, FALSE)

\* Math.floor of a double that is not negative
DoubleFloor(x) ==
    IF x.e >= 0 THEN BigToInt(BigShl(x.m, x.e))
    ELSE BigToInt(BigShr(x.m, -x.e))

(***************************************************************************)
(* WebSocket.  A socket is CONNECTING when created; the browser's task     *)
(* that opens it sets OPEN and fires open; the task that closes it sets    *)
(* CLOSED and fires error (when the connection failed) and then close.     *)
(* close() sets CLOSING until that task runs.                              *)
(***************************************************************************)
NoError == "null"
CONNECTION_FAILED == "Connection failed"

NewStream == [type |-> "new_stream", frame |-> 0, data |-> <<>>]
Finish == [type |-> "finish", frame |-> 0, data |-> <<>>]
Payload(n, bytes) == [type |-> "pcm", frame |-> n, data |-> bytes]

\* new WebSocket(ROBOT_WS_URL)
NewSocket == [readyState |-> "CONNECTING", sent |-> <<>>, opened |-> FALSE]

SocketIds == DOMAIN sockets

NoSockets == [w \in {} |-> NewSocket]

FreshSocketId(sks) == CHOOSE n \in 1..(Cardinality(DOMAIN sks) + 1) : n \notin DOMAIN sks

AddSocket(sks, id) ==
    [w \in (DOMAIN sks) \cup {id} |-> IF w = id THEN NewSocket ELSE sks[w]]

\* mutant: the close handler reconnects
RemoveSocketReconnect(sks, id) == [sks EXCEPT ![id] = NewSocket]

\* a closed socket whose close event has been handled takes no further part
RemoveSocket(sks, id) == [w \in (DOMAIN sks) \ {id} |-> sks[w]]

ReadyStateOf(ref) == IF ref = 0 THEN "undefined" ELSE sockets[ref].readyState

\* WebSocket.send: the message goes on the wire of an OPEN socket; a CLOSING
\* or CLOSED socket discards it
Transmit(sks, w, msg) ==
    IF sks[w].readyState = "OPEN"
    THEN [sks EXCEPT ![w].sent = Append(@, msg)]
    ELSE sks

\* WebSocket.close
CloseSocket(sks, w) ==
    IF sks[w].readyState \in {"CONNECTING", "OPEN"}
    THEN [sks EXCEPT ![w].readyState = "CLOSING"]
    ELSE sks

(***************************************************************************)
(* useRobotAudioBridge                                                     *)
(***************************************************************************)
AudioTracks == {"audio1", "audio2"}
Tracks == AudioTracks \cup {"video1"}
NoTrack == "none"

BridgeInit ==
    /\ enabled = FALSE
    /\ subscribed = {}
    /\ wsRef = 0
    /\ isConnecting = FALSE
    /\ sockets = NoSockets
    /\ dispatching = 0
    /\ connected = FALSE
    /\ error = NoError
    /\ bytesSent = 0
    /\ bytesSentRef = 0
    /\ hasProcessor = FALSE
    /\ processorTrack = NoTrack
    /\ processors = {}
    /\ audioContext = FALSE
    /\ captured = <<>>
    /\ checkpoints = 0
    /\ wireBytes = 0
    /\ inbound = "none"
    /\ lastConnect = "none"
    /\ lastAttach = "none"

\* mutant: the guard looks at an open socket only
AlreadyConnectingOpenOnly(ref, connecting) == ReadyStateOf(ref) = "OPEN"

\* the guard of connectToRobot
AlreadyConnecting(ref, connecting) ==
    \/ ReadyStateOf(ref) = "OPEN"
    \/ ReadyStateOf(ref) = "CONNECTING"
    \/ connecting

\* connectToRobot()
ConnectToRobot ==
    IF AlreadyConnecting(wsRef, isConnecting)
    THEN /\ lastConnect' = "noop"
         /\ UNCHANGED <<wsRef, isConnecting, sockets>>
    ELSE /\ Cardinality(SocketIds) < MaxSockets
         /\ lastConnect' = "opened"
         /\ isConnecting' = TRUE
         /\ sockets' = AddSocket(sockets, FreshSocketId(sockets))
         /\ wsRef' = FreshSocketId(sockets)

\* source.connect(processor); processor.connect(silentDestination)
Connect(procs, track) == procs \cup {track}

\* mutant: disconnect() leaves the node in the graph
DisconnectNothing(procs, track) == procs

\* processorRef.current.disconnect(); sourceNodeRef.current.disconnect()
Disconnect(procs, track) == procs \ {track}

\* mutant: the guard on hasProcessorRef is missing
ProcessRemoteAudioTrackUnguarded(track) ==
    /\ hasProcessor' = TRUE
    /\ audioContext' = TRUE
    /\ processorTrack' = track
    /\ processors' = Connect(processors, track)
    /\ lastAttach' = "attached"

\* processRemoteAudioTrack(track)
ProcessRemoteAudioTrack(track) ==
    IF hasProcessor
    THEN /\ lastAttach' = "noop"
         /\ UNCHANGED <<hasProcessor, processorTrack, processors, audioContext>>
    ELSE /\ hasProcessor' = TRUE
         /\ audioContext' = TRUE
         /\ processorTrack' = track
         /\ processors' = Connect(processors, track)
         /\ lastAttach' = "attached"

\* mutant: the flag is not cleared
CleanupAudioProcessorKeepsFlag ==
    /\ processors' = Disconnect(processors, processorTrack)
    /\ processorTrack' = NoTrack
    /\ hasProcessor' = hasProcessor

\* mutant: the refs are cleared but the nodes stay connected
CleanupAudioProcessorKeepsNodes ==
    /\ processors' = processors
    /\ processorTrack' = NoTrack
    /\ hasProcessor' = FALSE

\* cleanupAudioProcessor()
CleanupAudioProcessor ==
    /\ processors' = Disconnect(processors, processorTrack)
    /\ processorTrack' = NoTrack
    /\ hasProcessor' = FALSE

\* the two effects run: enabled became true (on mount or by a prop change)
Enable ==
    /\ dispatching = 0
    /\ ~enabled
    /\ enabled' = TRUE
    /\ ConnectToRobot
    /\ IF subscribed \cap AudioTracks = {}
       THEN /\ lastAttach' = "none"
            /\ UNCHANGED <<hasProcessor, processorTrack, processors,
                           audioContext>>
       ELSE \E first \in subscribed \cap AudioTracks :
                ProcessRemoteAudioTrack(first)
    /\ UNCHANGED <<subscribed, dispatching, connected, error, bytesSent,
                   bytesSentRef, captured>>
    /\ inbound' = "none"
    /\ UNCHANGED <<checkpoints, wireBytes, pcmIn, pcmOut, resampling>>
    /\ UNCHANGED relayVars

\* mutant: the socket is closed without the finish message
TeardownWithoutFinish(sks, ref) ==
    IF ref # 0 THEN CloseSocket(sks, ref) ELSE sks

\* the cleanup of the connection effect
Teardown(sks, ref) ==
    IF ref # 0
    THEN CloseSocket(IF sks[ref].readyState = "OPEN"
                     THEN Transmit(sks, ref, Finish)
                     ELSE sks,
                     ref)
    ELSE sks

\* the cleanups of both effects run: enabled became false, or the unmount
Disable ==
    /\ dispatching = 0
    /\ enabled
    /\ enabled' = FALSE
    /\ sockets' = Teardown(sockets, wsRef)
    /\ wsRef' = 0
    /\ CleanupAudioProcessor
    /\ audioContext' = FALSE
    /\ lastConnect' = "none"
    /\ lastAttach' = "none"
    /\ UNCHANGED <<subscribed, isConnecting, dispatching, connected, error,
                   bytesSent, bytesSentRef, captured>>
    /\ inbound' = "none"
    /\ UNCHANGED <<checkpoints, wireBytes, pcmIn, pcmOut, resampling>>
    /\ UNCHANGED relayVars

\* RoomEvent.TrackSubscribed; handleTrackSubscribed is registered while enabled
TrackSubscribed(track) ==
    /\ dispatching = 0
    /\ track \notin subscribed
    /\ subscribed' = IF track \in AudioTracks
                     THEN subscribed \cup {track}
                     ELSE subscribed
    /\ IF enabled /\ track \in AudioTracks
       THEN /\ IF wsRef = 0 \/ ReadyStateOf(wsRef) # "OPEN"
               THEN ConnectToRobot
               ELSE /\ lastConnect' = "none"
                    /\ UNCHANGED <<wsRef, isConnecting, sockets>>
            /\ ProcessRemoteAudioTrack(track)
       ELSE /\ lastConnect' = "none"
            /\ lastAttach' = "none"
            /\ UNCHANGED <<wsRef, isConnecting, sockets, hasProcessor,
                           processorTrack, processors, audioContext>>
    /\ UNCHANGED <<enabled, dispatching, connected, error, bytesSent,
                   bytesSentRef, captured>>
    /\ inbound' = "none"
    /\ UNCHANGED <<checkpoints, wireBytes, pcmIn, pcmOut, resampling>>
    /\ UNCHANGED relayVars

\* RoomEvent.TrackUnsubscribed; handleTrackUnsubscribed
TrackUnsubscribed(track) ==
    /\ dispatching = 0
    /\ track \in subscribed \/ track \notin AudioTracks
    /\ subscribed' = subscribed \ {track}
    /\ IF enabled /\ track \in AudioTracks
       THEN CleanupAudioProcessor
       ELSE UNCHANGED <<hasProcessor, processorTrack, processors>>
    /\ lastConnect' = "none"
    /\ lastAttach' = "none"
    /\ UNCHANGED <<enabled, wsRef, isConnecting, sockets, dispatching,
                   connected, error, bytesSent, bytesSentRef, audioContext,
                   captured>>
    /\ inbound' = "none"
    /\ UNCHANGED <<checkpoints, wireBytes, pcmIn, pcmOut, resampling>>
    /\ UNCHANGED relayVars

\* mutant: onopen announces nothing
OpenMessageWrongType == Finish

\* ws.send(JSON.stringify({ type: 'new_stream' }))
OpenMessage == NewStream

\* the socket opens: ws.onopen
WsOpen(w) ==
    /\ dispatching = 0
    /\ sockets[w].readyState = "CONNECTING"
    /\ isConnecting' = FALSE
    /\ connected' = TRUE
    /\ error' = NoError
    /\ sockets' = Transmit([sockets EXCEPT ![w].readyState = "OPEN",
                                           ![w].opened = TRUE],
                           w, OpenMessage)
    /\ lastConnect' = "none"
    /\ lastAttach' = "none"
    /\ UNCHANGED <<enabled, subscribed, wsRef, dispatching, bytesSent,
                   bytesSentRef, hasProcessor, processorTrack, processors,
                   audioContext, captured>>
    /\ inbound' = "none"
    /\ UNCHANGED <<checkpoints, wireBytes, pcmIn, pcmOut, resampling>>
    /\ UNCHANGED relayVars

\* mutant: onerror records nothing
ErrorAfterOnErrorKept(e) == e

\* setState(s => ({ ...s, error: 'Connection failed' }))
ErrorAfterOnError(e) == CONNECTION_FAILED

\* the connection fails (refused, lost, or closed before it was
\* established): ws.onerror; the close event follows in the same task
WsError(w) ==
    /\ dispatching = 0
    /\ sockets[w].readyState \in {"CONNECTING", "OPEN", "CLOSING"}
    /\ sockets' = [sockets EXCEPT ![w].readyState = "CLOSED"]
    /\ isConnecting' = FALSE
    /\ error' = ErrorAfterOnError(error)
    /\ dispatching' = w
    /\ lastConnect' = "none"
    /\ lastAttach' = "none"
    /\ UNCHANGED <<enabled, subscribed, wsRef, connected, bytesSent,
                   bytesSentRef, hasProcessor, processorTrack, processors,
                   audioContext, captured>>
    /\ inbound' = "none"
    /\ UNCHANGED <<checkpoints, wireBytes, pcmIn, pcmOut, resampling>>
    /\ UNCHANGED relayVars

\* ws.onclose: after the error event, or on its own when an opened socket
\* is closed by the peer or finishes the closing handshake
WsClose(w) ==
    /\ \/ dispatching = w
       \/ /\ dispatching = 0
          /\ sockets[w].opened
          /\ sockets[w].readyState \in {"OPEN", "CLOSING"}
    /\ sockets' = RemoveSocket(sockets, w)
    /\ dispatching' = 0
    /\ isConnecting' = FALSE
    /\ connected' = FALSE
    /\ wsRef' = 0
    /\ lastConnect' = "none"
    /\ lastAttach' = "none"
    /\ UNCHANGED <<enabled, subscribed, error, bytesSent, bytesSentRef,
                   hasProcessor, processorTrack, processors, audioContext,
                   captured>>
    /\ inbound' = "none"
    /\ UNCHANGED <<checkpoints, wireBytes, pcmIn, pcmOut, resampling>>
    /\ UNCHANGED relayVars

\* sendAudioToRobot: wsRef.current?.readyState === WebSocket.OPEN
CanSend(ref) == ReadyStateOf(ref) = "OPEN"

\* the frames captured before frame n that sendAudioToRobot dropped
RECURSIVE Backlog(_)
Backlog(n) ==
    IF n = 0 THEN <<>>
    ELSE IF captured[n].outcome = "dropped"
         THEN Append(Backlog(n - 1),
                     Payload(n, float32ToPCM16(
                         resampleAudio(captured[n].samples,
                                       CONTEXT_SAMPLE_RATE,
                                       TARGET_SAMPLE_RATE))))
         ELSE Backlog(n - 1)

\* mutant: dropped payloads are kept and flushed with the next one
OutgoingWithBacklog(n, pcmData) ==
    Append(Backlog(n - 1), Payload(n, pcmData))

\* mutant: the previous buffer is sent once more after the current one
OutgoingThenPrevious(n, pcmData) ==
    IF n > 1 /\ captured[n - 1].outcome = "sent"
    THEN <<Payload(n, pcmData), Payload(n - 1, pcmData)>>
    ELSE <<Payload(n, pcmData)>>

\* wsRef.current.send(pcmData): what one call puts on the wire
Outgoing(n, pcmData) == <<Payload(n, pcmData)>>

RECURSIVE TransmitAll(_, _, _)
TransmitAll(sks, w, msgs) ==
    IF msgs = <<>> THEN sks
    ELSE TransmitAll(Transmit(sks, w, Head(msgs)), w, Tail(msgs))

\* mutant: a checkpoint only when the counter is a multiple of 51200
AtCheckpointExactMultiple(total, byteLength) == total % CHECKPOINT_BYTES = 0

\* bytesSentRef.current % 51200 < pcmData.byteLength
AtCheckpoint(total, byteLength) == total % CHECKPOINT_BYTES < byteLength

\* mutant: the counter counts the messages, not their bytes
BytesAfterSendCountsMessages(total, byteLength) == total + 1

\* bytesSentRef.current += pcmData.byteLength
BytesAfterSend(total, byteLength) == total + byteLength

\* the bytes of the payload messages among the first k messages of a wire
RECURSIVE PcmBytes(_, _)
PcmBytes(log, k) ==
    IF k = 0 THEN 0
    ELSE PcmBytes(log, k - 1)
           + (IF log[k].type = "pcm" THEN Len(log[k].data) ELSE 0)

\* sendAudioToRobot(pcmData); n numbers the payload on the wire
SendAudioToRobot(n, pcmData) ==
    IF CanSend(wsRef)
    THEN /\ sockets' = TransmitAll(sockets, wsRef, Outgoing(n, pcmData))
         /\ wireBytes' = wireBytes
                + PcmBytes(sockets'[wsRef].sent, Len(sockets'[wsRef].sent))
                - PcmBytes(sockets[wsRef].sent, Len(sockets[wsRef].sent))
         /\ bytesSentRef' = BytesAfterSend(bytesSentRef, Len(pcmData))
         /\ IF AtCheckpoint(bytesSentRef', Len(pcmData))
            THEN /\ bytesSent' = bytesSentRef'
                 /\ checkpoints' = checkpoints + 1
            ELSE UNCHANGED <<bytesSent, checkpoints>>
    ELSE UNCHANGED <<sockets, wireBytes, bytesSentRef, bytesSent, checkpoints>>

\* processor.onaudioprocess of a connected processor node, with
\* sendAudioToRobot
AudioProcess(inputData) ==
    /\ dispatching = 0
    /\ Len(captured) < MaxFrames
    /\ processors # {}
    /\  LET n == Len(captured) + 1
            pcmData == float32ToPCM16(
                           resampleAudio(inputData, CONTEXT_SAMPLE_RATE,
                                         TARGET_SAMPLE_RATE))
        IN  IF IsSilent(MaxSample(inputData))
            THEN /\ captured' = Append(captured,
                         [samples |-> inputData, outcome |-> "silent"])
                 /\ UNCHANGED <<sockets, wireBytes, bytesSentRef, bytesSent,
                                checkpoints>>
            ELSE /\ SendAudioToRobot(n, pcmData)
                 /\ captured' = Append(captured,
                         [samples |-> inputData,
                          outcome |-> IF CanSend(wsRef) THEN "sent"
                                      ELSE "dropped"])
    /\ lastConnect' = "none"
    /\ lastAttach' = "none"
    /\ inbound' = "none"
    /\ UNCHANGED <<enabled, subscribed, wsRef, isConnecting, dispatching,
                   connected, error, hasProcessor, processorTrack, processors,
                   audioContext, pcmIn, pcmOut, resampling>>
    /\ UNCHANGED relayVars

\* an ArrayBuffer of the given length
ZeroBuffer(length) == [i \in 1..length |-> 0]

\* the byte lengths of the buffers handed to sendAudioToRobot on its own:
\* empty, one shortened frame, one 4096-sample frame, half the checkpoint
\* distance and the checkpoint distance itself
PayloadLengths == {0, 4, 2730, 25600, 51200}

PayloadInputs == {ZeroBuffer(length) : length \in PayloadLengths}

\* one call of sendAudioToRobot by the attached processor
SendPayload(pcmData) ==
    /\ dispatching = 0
    /\ processors # {}
    /\ wsRef # 0
    /\ Len(sockets[wsRef].sent) <= MaxSends
    /\ SendAudioToRobot(Len(sockets[wsRef].sent), pcmData)
    /\ lastConnect' = "none"
    /\ lastAttach' = "none"
    /\ inbound' = "none"
    /\ UNCHANGED <<enabled, subscribed, wsRef, isConnecting, dispatching,
                   connected, error, hasProcessor, processorTrack, processors,
                   audioContext, captured, pcmIn, pcmOut, resampling>>
    /\ UNCHANGED relayVars

\* the data of the messages the remote endpoint sends, as characters
InboundInputs ==
    { <<>>, <<"o", "k">>, <<"{">>, <<"{", "}">>, <<"{", "a", "}">> }

\* JSON.parse(event.data) returns: the text is an object literal
IsJSON(data) ==
    /\ Len(data) >= 2
    /\ data[1] = "{"
    /\ data[Len(data)] = "}"
    /\ \A i \in 2..(Len(data) - 1) : data[i] \notin {"{", "}"}

\* mutant: the handler has no try / catch
OnMessageOutcomeUncaught(data) == IF IsJSON(data) THEN "parsed" ELSE "thrown"

\* try { JSON.parse; console.log } catch { }
OnMessageOutcome(data) == IF IsJSON(data) THEN "parsed" ELSE "ignored"

\* ws.onmessage: a message of the remote endpoint arrives on a socket that
\* is open or closing
WsMessage(w, data) ==
    /\ dispatching = 0
    /\ sockets[w].opened
    /\ sockets[w].readyState \in {"OPEN", "CLOSING"}
    /\ inbound' = OnMessageOutcome(data)
    /\ lastConnect' = "none"
    /\ lastAttach' = "none"
    /\ UNCHANGED <<enabled, subscribed, wsRef, isConnecting, sockets,
                   dispatching, connected, error, bytesSent, bytesSentRef,
                   hasProcessor, processorTrack, processors, audioContext,
                   captured, checkpoints, wireBytes, pcmIn, pcmOut, resampling>>
    /\ UNCHANGED relayVars

\* the samples handed to the encoder on its own: inside, on and beyond the
\* ends of [-1, 1]
SampleInputs ==
    { -2 * SAMPLE_ONE, -SAMPLE_ONE - 1, -SAMPLE_ONE, -SAMPLE_ONE + 1, -1, 0,
      1, SAMPLE_ONE - 1, SAMPLE_ONE, SAMPLE_ONE + 1, 2 * SAMPLE_ONE }

\* float32ToPCM16(float32Array), called on its own
Encode ==
    /\ pcmOut = <<>>
    /\ pcmIn # <<>>
    /\ pcmOut' = float32ToPCM16(pcmIn)
    /\ UNCHANGED <<enabled, subscribed, wsRef, isConnecting, sockets,
                   dispatching, connected, error, bytesSent, bytesSentRef,
                   hasProcessor, processorTrack, processors, audioContext,
                   captured, checkpoints, wireBytes, inbound, pcmIn,
                   resampling, lastConnect, lastAttach>>
    /\ UNCHANGED relayVars

(***************************************************************************)
(* resampleAudio called on its own.  Which positions of inputBuffer an     *)
(* output sample reads depends on the length and the two rates only, so    *)
(* the call is given a length, and the loop is taken one iteration at a    *)
(* time with its locals as the code computes them, in doubles.             *)
(***************************************************************************)
\* the rates of the program (48000 to 16000), their inverse, equal rates,
\* and rates whose quotient is not a double
RateInputs ==
    { <<48000, 16000>>, <<16000, 48000>>, <<48000, 48000>>,
      <<1, 49>>, <<3, 59>> }

NoResampling ==
    [phase |-> "idle", length |-> 0, inputSampleRate |-> 1,
     outputSampleRate |-> 1, ratio |-> DoubleOf(0), outputLength |-> 0,
     i |-> 0, srcIndexFloor |-> 0, srcIndexCeil |-> 0]

ResampleInputs ==
    { [NoResampling EXCEPT !.phase = "called", !.length = length,
                           !.inputSampleRate = rates[1],
                           !.outputSampleRate = rates[2]] :
        length \in 0..MaxLength, rates \in RateInputs }

\* const ratio = inputSampleRate / outputSampleRate
Ratio(inputSampleRate, outputSampleRate) ==
    DoubleDiv(DoubleOf(inputSampleRate), DoubleOf(outputSampleRate))

\* const outputLength = Math.floor(inputBuffer.length / ratio)
OutputLengthOf(length, ratio) == DoubleFloor(DoubleDiv(DoubleOf(length), ratio))

\* const srcIndex = i * ratio; const srcIndexFloor = Math.floor(srcIndex)
SrcIndexFloor(i, ratio) == DoubleFloor(DoubleMul(DoubleOf(i), ratio))

\* const srcIndexCeil = Math.min(srcIndexFloor + 1, inputBuffer.length - 1)
SrcIndexCeil(srcIndexFloor, length) == Min(srcIndexFloor + 1, length - 1)

\* the call up to the loop: equal rates return inputBuffer as it is
ResampleBegin ==
    /\ resampling.phase = "called"
    /\ resampling' =
         IF resampling.inputSampleRate = resampling.outputSampleRate
         THEN [resampling EXCEPT !.phase = "returned",
                                 !.outputLength = resampling.length]
         ELSE LET ratio == Ratio(resampling.inputSampleRate,
                                 resampling.outputSampleRate)
              IN  [resampling EXCEPT
                       !.phase = "loop",
                       !.ratio = ratio,
                       !.outputLength = OutputLengthOf(resampling.length, ratio),
                       !.i = 0]
    /\ UNCHANGED <<enabled, subscribed, wsRef, isConnecting, sockets,
                   dispatching, connected, error, bytesSent, bytesSentRef,
                   hasProcessor, processorTrack, processors, audioContext,
                   captured, checkpoints, wireBytes, inbound, pcmIn, pcmOut,
                   lastConnect, lastAttach>>
    /\ UNCHANGED relayVars

\* one iteration of the loop: output[i] is read from inputBuffer at
\* srcIndexFloor and srcIndexCeil
ResampleIterate ==
    /\ resampling.phase = "loop"
    /\ resampling.i < resampling.outputLength
    /\ LET srcIndexFloor == SrcIndexFloor(resampling.i, resampling.ratio)
       IN  resampling' =
             [resampling EXCEPT
                  !.srcIndexFloor = srcIndexFloor,
                  !.srcIndexCeil = SrcIndexCeil(srcIndexFloor,
                                                resampling.length),
                  !.i = resampling.i + 1]
    /\ UNCHANGED <<enabled, subscribed, wsRef, isConnecting, sockets,
                   dispatching, connected, error, bytesSent, bytesSentRef,
                   hasProcessor, processorTrack, processors, audioContext,
                   captured, checkpoints, wireBytes, inbound, pcmIn, pcmOut,
                   lastConnect, lastAttach>>
    /\ UNCHANGED relayVars

\* the loop ends: return output
ResampleReturn ==
    /\ resampling.phase = "loop"
    /\ resampling.i >= resampling.outputLength
    /\ resampling' = [resampling EXCEPT !.phase = "returned"]
    /\ UNCHANGED <<enabled, subscribed, wsRef, isConnecting, sockets,
                   dispatching, connected, error, bytesSent, bytesSentRef,
                   hasProcessor, processorTrack, processors, audioContext,
                   captured, checkpoints, wireBytes, inbound, pcmIn, pcmOut,
                   lastConnect, lastAttach>>
    /\ UNCHANGED relayVars

Next ==
    \/ Enable
    \/ Disable
    \/ \E track \in Tracks : TrackSubscribed(track)
    \/ \E track \in Tracks : TrackUnsubscribed(track)
    \/ \E w \in SocketIds : WsOpen(w)
    \/ \E w \in SocketIds : WsError(w)
    \/ \E w \in SocketIds : WsClose(w)
    \/ \E inputData \in FrameInputs : AudioProcess(inputData)

\* the encoder has not been called on its own
CodecIdle == pcmIn = <<>> /\ pcmOut = <<>>

\* the resampler has not been called on its own
ResamplerIdle == resampling = NoResampling

Init == RelayInit /\ BridgeInit /\ CodecIdle /\ ResamplerIdle

Spec == Init /\ [][Next]_vars

SpecRelay == Init /\ [][NextRelay]_vars

\* the bridge with direct calls of sendAudioToRobot, for the byte counter
NextCheckpoint ==
    \/ Enable
    \/ \E track \in Tracks : TrackSubscribed(track)
    \/ \E w \in SocketIds : WsOpen(w)
    \/ \E pcmData \in PayloadInputs : SendPayload(pcmData)

SpecCheckpoint == Init /\ [][NextCheckpoint]_vars

\* the bridge with the messages of the remote endpoint
NextInbound ==
    \/ Enable
    \/ Disable
    \/ \E track \in Tracks : TrackSubscribed(track)
    \/ \E w \in SocketIds : WsOpen(w)
    \/ \E w \in SocketIds : WsClose(w)
    \/ \E w \in SocketIds, data \in InboundInputs : WsMessage(w, data)
    \/ \E inputData \in FrameInputs : AudioProcess(inputData)

SpecInbound == Init /\ [][NextInbound]_vars

\* the encoder applied to every array of the inputs
InitCodec ==
    /\ RelayInit
    /\ BridgeInit
    /\ pcmIn \in SeqsUpTo(SampleInputs, MaxArray)
    /\ pcmOut = <<>>
    /\ ResamplerIdle

NextCodec == Encode

SpecCodec == InitCodec /\ [][NextCodec]_vars

\* the resampler applied to every length and pair of rates of the inputs
InitResampler ==
    /\ RelayInit
    /\ BridgeInit
    /\ CodecIdle
    /\ resampling \in ResampleInputs

NextResampler ==
    \/ ResampleBegin
    \/ ResampleIterate
    \/ ResampleReturn

SpecResampler == InitResampler /\ [][NextResampler]_vars


(***************************************************************************)
(* Claims about the Transcript Debounce Relay (SpecRelay)                  *)
(***************************************************************************)
NoDuplicateDispatch ==
    \A i, j \in 1..Len(dispatched) : i # j => dispatched[i] # dispatched[j]

\* C1: within one relay instance every distinct trimmed text is dispatched
\* to the speech endpoint at most once, every dispatched text is in
\* SentTextSet, and SentTextSet never loses an element.
C1_DispatchAtMostOnce ==
    /\ [](NoDuplicateDispatch
          /\ \A i \in 1..Len(dispatched) : dispatched[i] \in sentTexts)
    /\ [][sentTexts \subseteq sentTexts']_vars

\* C1 witness: two different texts were dispatched, one of them failed, and
\* the remote session's texts are all in SentTextSet with no timer pending.
C1_Witness ==
    /\ Len(dispatched) >= 2
    /\ failedTexts # {}
    /\ Cardinality(sentTexts) = Len(dispatched)
    /\ DOMAIN timers = {}

\* C3: a burst of qualifying updates, each less than DEBOUNCE_MS after the
\* previous one, ends at the timer expiry with exactly one dispatch since
\* the burst began; it carries the text of the last update, and none of the
\* other texts of the burst was dispatched.
C3_BurstDispatchesLastOnce ==
    closed.texts # {} =>
        /\ closed.after = closed.base + 1
        /\ closed.after <= Len(dispatched)
        /\ dispatched[closed.after] = closed.last
        /\ \A i \in (closed.base + 1)..closed.after :
               dispatched[i] \notin closed.texts \ {closed.last}

\* C3 witness: a burst of three different texts ended with the single
\* dispatch of its last text.
C3_Witness ==
    /\ Cardinality(closed.texts) = 3
    /\ closed.base = 0
    /\ dispatched = <<closed.last>>

\* C12: a text whose dispatch failed is still in SentTextSet and was
\* dispatched exactly once; the failure changes neither SentTextSet nor the
\* dispatches issued.
C12_FailedDispatchNotRetried ==
    /\ [](\A t \in failedTexts :
            /\ t \in sentTexts
            /\ Cardinality({i \in 1..Len(dispatched) : dispatched[i] = t}) = 1)
    /\ [][failedTexts' # failedTexts
            => (sentTexts' = sentTexts /\ dispatched' = dispatched)]_vars

\* C12 witness: the first dispatch failed, the remote session emitted that
\* text again, the update was ignored, and a second text has been
\* dispatched since.
C12_Witness ==
    /\ Len(dispatched) = 2
    /\ dispatched[1] \in failedTexts
    /\ inflight = {}
    /\ lastUpdate.kind = "ignored"
    /\ lastUpdate.remote
    /\ Trim(lastUpdate.last) = dispatched[1]

\* C13: a transcript update that is ignored leaves the pending text, the
\* running debounce timer and SentTextSet unchanged.
C13_IgnoredUpdateChangesNothing ==
    [][lastUpdate'.kind = "ignored"
         => UNCHANGED <<pendingText, timerRef, timers, sentTexts>>]_vars

\* C14: a qualifying update records its text as pending and leaves exactly
\* one timer armed, the one it has just set, with its full DEBOUNCE_MS to
\* run; at most one timer is armed in every state, and a dispatch happens
\* only when the armed timer has run DEBOUNCE_MS.
C14_OneTimerArmed ==
    /\ [](Cardinality(DOMAIN timers) <= 1 /\ DOMAIN timers \subseteq {timerRef})
    /\ [][lastUpdate'.kind = "qualified"
            => /\ pendingText' = Trim(lastUpdate'.last)
               /\ DOMAIN timers' = {timerRef'}
               /\ timers'[timerRef'] = 0]_vars
    /\ [][Len(dispatched') > Len(dispatched)
            => /\ timerRef \in DOMAIN timers
               /\ timers[timerRef] >= DEBOUNCE_MS]_vars

\* C14 witness: a second qualifying update arrived while the timer of the
\* first was running; one timer is armed and it has just been started.
C14_Witness ==
    /\ lastUpdate.kind = "qualified"
    /\ Cardinality(burst.texts) = 2
    /\ DOMAIN timers = {timerRef}
    /\ timers[timerRef] = 0
    /\ pendingText = burst.last

\* the texts of the local participant that no remote event carries
LocalOnlyTexts ==
    {t.text : t \in {e \in Transcriptions : e.identity = LOCAL_IDENTITY}}
        \ {Trim(t.text) : t \in {e \in Transcriptions : e.identity # LOCAL_IDENTITY}}

\* C15: the pending text changes only in a qualifying update, to the trimmed
\* text of an event of another participant; every dispatch is of the pending
\* text; a text that only the local participant produced is never
\* dispatched.
C15_OnlyRemoteTexts ==
    /\ [][pendingText' # pendingText
            => /\ lastUpdate'.kind = "qualified"
               /\ lastUpdate'.remote
               /\ pendingText' = Trim(lastUpdate'.last)]_vars
    /\ [][dispatched' # dispatched
            => dispatched' = Append(dispatched, pendingText)]_vars
    /\ [](\A i \in 1..Len(dispatched) : dispatched[i] \notin LocalOnlyTexts)

\* C15 witness: a remote text was dispatched, and the update that followed,
\* which held only an event of the local participant, was ignored.
C15_Witness ==
    /\ Len(dispatched) = 1
    /\ lastUpdate.kind = "ignored"
    /\ ~lastUpdate.remote
    /\ lastUpdate.local \cap LocalOnlyTexts # {}
    /\ dispatched[1] = pendingText

\* C16: a qualifying update makes the trimmed text of its last remote event
\* the pending text; the expiry of the timer dispatches that text and no
\* text that it superseded in the window.
C16_ExpiryDispatchesLatestPending ==
    /\ [][lastUpdate'.kind = "qualified"
            => /\ burst'.last = Trim(lastUpdate'.last)
               /\ pendingText' = burst'.last]_vars
    /\ [][Len(dispatched') > Len(dispatched)
            => /\ dispatched' = Append(dispatched, burst.last)
               /\ burst.last = pendingText
               /\ \A t \in burst.texts \ {burst.last} :
                      t \notin sentTexts']_vars

\* C16 witness: the burst that has just ended held two texts, the first
\* superseded by the second, and the second is the one dispatched.
C16_Witness ==
    /\ Cardinality(closed.texts) = 2
    /\ closed.after = Len(dispatched)
    /\ dispatched # <<>>
    /\ dispatched[Len(dispatched)] = closed.last
    /\ \E t \in closed.texts : t \notin sentTexts

\* C17: once the relay is unmounted no timer is armed and nothing is
\* dispatched.
C17_NoDispatchAfterTeardown ==
    /\ [](~relayMounted => DOMAIN timers = {})
    /\ [][~relayMounted => dispatched' = dispatched]_vars

\* C17 witness: the relay was unmounted while the timer of a burst was
\* running; its pending text was never dispatched.
C17_Witness ==
    /\ ~relayMounted
    /\ burst.texts # {}
    /\ pendingText = burst.last
    /\ pendingText \notin sentTexts
    /\ dispatched # <<>>

(***************************************************************************)
(* Claims about the Relay Connection Manager and the Audio Frame Pipeline  *)
(* (Spec)                                                                  *)
(***************************************************************************)
LiveSockets ==
    {w \in SocketIds : sockets[w].readyState \in {"CONNECTING", "OPEN"}}

\* C2: in every reachable state at most one connection opened by the
\* manager is in the open or connecting state.
C2_AtMostOneLiveConnection == Cardinality(LiveSockets) <= 1

\* the payload messages of a socket's wire, as capture numbers
PcmFrames(log) == {log[i].frame : i \in {k \in 1..Len(log) : log[k].type = "pcm"}}

WithinSilenceInterval(samples) ==
    \A i \in 1..Len(samples) : Abs(samples[i]) * SILENCE_INV <= SAMPLE_ONE

\* C4: a frame whose samples are all within [-0.0001, 0.0001] is skipped by
\* the gate: it is not resampled, encoded or passed to sendAudioToRobot, and
\* no socket carries a payload made from it.
C4_SilenceSuppressed ==
    \A n \in 1..Len(captured) :
        WithinSilenceInterval(captured[n].samples) =>
            /\ captured[n].outcome = "silent"
            /\ \A w \in SocketIds : n \notin PcmFrames(sockets[w].sent)

\* C4 witness: a frame whose peak is the largest sample value not above
\* 0.0001 was captured while the current socket was open, and nothing but
\* new_stream is on that socket.
C4_Witness ==
    /\ captured # <<>>
    /\ MaxSample(captured[Len(captured)].samples) = 3
    /\ ReadyStateOf(wsRef) = "OPEN"
    /\ sockets[wsRef].sent = <<NewStream>>

\* the capture numbers a step adds to the wire of socket w
NewPcmFrames(w) ==
    PcmFrames(sockets'[w].sent)
        \ (IF w \in SocketIds THEN PcmFrames(sockets[w].sent) ELSE {})

\* C5: a payload goes on the wire only in the step that captured its frame,
\* on the current socket, which is OPEN; a payload dropped because the
\* current connection was not open is on no socket's wire afterwards.
C5_SendOnlyWhenOpen ==
    /\ [][\A w \in DOMAIN sockets' :
            NewPcmFrames(w) # {} =>
                /\ w = wsRef
                /\ ReadyStateOf(wsRef) = "OPEN"
                /\ Len(captured') = Len(captured) + 1
                /\ NewPcmFrames(w) = {Len(captured')}]_vars
    /\ [](\A n \in 1..Len(captured) :
            captured[n].outcome = "dropped" =>
                \A w \in SocketIds : n \notin PcmFrames(sockets[w].sent))

\* C5 witness: the first frame was dropped, the second one was sent on the
\* socket that is now open, and that socket carries only the second.
C5_Witness ==
    /\ Len(captured) = 2
    /\ captured[1].outcome = "dropped"
    /\ captured[2].outcome = "sent"
    /\ ReadyStateOf(wsRef) = "OPEN"
    /\ PcmFrames(sockets[wsRef].sent) = {2}

\* C6: on every connection the payloads appear in capture order.
C6_CaptureOrder ==
    \A w \in SocketIds :
        \A i, j \in 1..Len(sockets[w].sent) :
            (/\ i < j
             /\ sockets[w].sent[i].type = "pcm"
             /\ sockets[w].sent[j].type = "pcm")
                => sockets[w].sent[i].frame < sockets[w].sent[j].frame

\* C6 witness: one socket carries the payloads of two frames.
C6_Witness ==
    \E w \in SocketIds : Cardinality(PcmFrames(sockets[w].sent)) = 2

ManagerConnecting ==
    isConnecting \/ (wsRef # 0 /\ sockets[wsRef].readyState = "CONNECTING")

ManagerConnected == wsRef # 0 /\ sockets[wsRef].readyState = "OPEN"

\* C7: a connectToRobot() call made while the manager is Connecting or
\* Connected creates no socket and changes no state of the manager.
C7_ConnectIdempotent ==
    [][((ManagerConnecting \/ ManagerConnected) /\ lastConnect' # "none")
          => (lastConnect' = "noop" /\ UNCHANGED connVars)]_vars

\* C7 witness: connectToRobot() was called a second time while the first
\* socket was still connecting, and that socket is the only one.
C7_Witness ==
    /\ lastConnect = "noop"
    /\ SocketIds = {wsRef}
    /\ sockets[wsRef].readyState = "CONNECTING"
    /\ hasProcessor

\* C8: a socket that reached OPEN carries exactly one new_stream, as its
\* first message; a socket that never opened carries nothing.
C8_NewStreamFirst ==
    \A w \in SocketIds :
        IF sockets[w].opened
        THEN /\ sockets[w].sent # <<>>
             /\ sockets[w].sent[1] = NewStream
             /\ \A i \in 2..Len(sockets[w].sent) : sockets[w].sent[i] # NewStream
        ELSE sockets[w].sent = <<>>

\* C8 witness: an open socket carries new_stream followed by a payload.
C8_Witness ==
    \E w \in SocketIds :
        /\ Len(sockets[w].sent) >= 2
        /\ sockets[w].sent[1] = NewStream
        /\ sockets[w].sent[2].type = "pcm"

\* C9: the teardown of an open current socket appends finish and closes it,
\* finish is the last message of any socket that carries it, and every
\* teardown leaves wsRef null.
C9_FinishThenRelease ==
    /\ [][(enabled /\ ~enabled') =>
            /\ wsRef' = 0
            /\ ManagerConnected =>
                  /\ sockets'[wsRef].sent = Append(sockets[wsRef].sent, Finish)
                  /\ sockets'[wsRef].readyState = "CLOSING"]_vars
    /\ [](\A w \in SocketIds :
            \A i \in 1..Len(sockets[w].sent) :
                sockets[w].sent[i] = Finish => i = Len(sockets[w].sent))

\* C9 witness: a torn-down socket carries new_stream, a payload and finish,
\* is closing, and the manager holds no handle.
C9_Witness ==
    /\ ~enabled
    /\ wsRef = 0
    /\ \E w \in SocketIds :
          /\ sockets[w].readyState = "CLOSING"
          /\ Len(sockets[w].sent) = 3
          /\ sockets[w].sent[2].type = "pcm"
          /\ sockets[w].sent[3] = Finish

\* C10: when the error event of a socket and the close event that follows
\* it have been handled, state.connected is false and state.error holds the
\* error description.
C10_ErrorRecorded ==
    [][(dispatching # 0 /\ dispatching' = 0)
          => (connected' = FALSE /\ error' = CONNECTION_FAILED)]_vars

\* C10 witness: a connection that had carried a payload failed; the manager
\* reports disconnected with the error recorded and holds no socket.
C10_Witness ==
    /\ dispatching = 0
    /\ enabled
    /\ SocketIds = {}
    /\ \E n \in 1..Len(captured) : captured[n].outcome = "sent"
    /\ connected = FALSE
    /\ error = CONNECTION_FAILED

\* a step creates socket w
SocketCreated(w) ==
    /\ w \in DOMAIN sockets'
    /\ sockets'[w] = NewSocket
    /\ (w \in DOMAIN sockets => sockets[w] # NewSocket)

\* C11: a socket is created only by a connectToRobot() call made when the
\* bridge is enabled or when a remote audio track is subscribed; the steps
\* that handle a socket's error and close events create none.
C11_NoAutomaticReconnect ==
    [][(\E w \in DOMAIN sockets' : SocketCreated(w))
         => /\ lastConnect' = "opened"
            /\ \/ ~enabled /\ enabled'
               \/ /\ enabled /\ enabled'
                  /\ Cardinality(subscribed') > Cardinality(subscribed)]_vars

\* C11 witness: the connection failed and stayed down until a remote audio
\* track was subscribed, which opened the socket that is now connecting.
C11_Witness ==
    /\ error = CONNECTION_FAILED
    /\ ~connected
    /\ lastConnect = "opened"
    /\ SocketIds = {wsRef}
    /\ sockets[wsRef].readyState = "CONNECTING"
    /\ subscribed = {processorTrack}

\* C18: at most one processor node is connected, and it is the one the flag
\* and processorRef stand for; a remote audio track subscribed while a
\* processor is attached changes nothing of the pipeline.
C18_AtMostOneProcessor ==
    /\ [](/\ Cardinality(processors) <= 1
          /\ processors \subseteq {processorTrack}
          /\ hasProcessor <=> processors # {})
    /\ [][(/\ enabled /\ enabled'
           /\ hasProcessor
           /\ Cardinality(subscribed') > Cardinality(subscribed))
            => lastAttach' = "noop"]_vars
    /\ [][lastAttach' = "noop"
            => UNCHANGED <<hasProcessor, processorTrack, processors,
                           audioContext>>]_vars

\* C18 witness: a second remote audio track was subscribed after the
\* processor of the first had delivered a frame; the attach did nothing and
\* the first track's processor is the one connected.
C18_Witness ==
    /\ enabled
    /\ lastAttach = "noop"
    /\ Cardinality(subscribed) = 2
    /\ hasProcessor
    /\ processors = {processorTrack}
    /\ captured # <<>>

\* C19: a detach clears the flag and disconnects the processor, and when it
\* is not part of the bridge's teardown it leaves the handle, the connection
\* state and the byte counters unchanged; an attach made while the current
\* socket is open connects the new source without calling connectToRobot().
C19_DetachKeepsConnection ==
    /\ [][(processorTrack # NoTrack /\ processorTrack' = NoTrack)
            => /\ ~hasProcessor'
               /\ processors' = {}
               /\ enabled' => (UNCHANGED connVars /\ lastConnect' = "none")]_vars
    /\ [][(lastAttach' = "attached" /\ ManagerConnected)
            => /\ hasProcessor'
               /\ processors' = {processorTrack'}
               /\ processorTrack' # NoTrack
               /\ lastConnect' = "none"
               /\ UNCHANGED connVars]_vars

\* C19 witness: a track has just been attached while the current socket,
\* open, already carries the payload of a frame of the source attached
\* before.
C19_Witness ==
    /\ lastAttach = "attached"
    /\ lastConnect = "none"
    /\ ManagerConnected
    /\ SocketIds = {wsRef}
    /\ PcmFrames(sockets[wsRef].sent) = {1}
    /\ bytesSentRef > 0

\* C20: a frame is delivered only by the attached processor, and while no
\* processor is attached no payload goes on any wire.
C20_NoFramesAfterDetach ==
    /\ [][Len(captured') > Len(captured)
            => /\ hasProcessor
               /\ processors = {processorTrack}]_vars
    /\ [][~hasProcessor
            => \A w \in DOMAIN sockets' : NewPcmFrames(w) = {}]_vars

\* C20 witness: a frame was sent, the track was unsubscribed, and the
\* connection is still open with that one payload on it.
C20_Witness ==
    /\ enabled
    /\ ~hasProcessor
    /\ subscribed = {}
    /\ ManagerConnected
    /\ PcmFrames(sockets[wsRef].sent) = {1}
    /\ Len(captured) = 1

\* C21: the byte counter equals the payload bytes put on the wires, never
\* decreases, and a frame that is silent or dropped leaves the counter and
\* the published bytesSent unchanged.
C21_ByteCounterExact ==
    /\ [](bytesSentRef = wireBytes)
    /\ [][bytesSentRef' >= bytesSentRef]_vars
    /\ [][(/\ Len(captured') > Len(captured)
           /\ captured'[Len(captured')].outcome \in {"silent", "dropped"})
            => (bytesSentRef' = bytesSentRef /\ bytesSent' = bytesSent)]_vars

\* C21 witness: of two frames one was transmitted and the other dropped; the
\* counter holds the bytes of the one payload on the wire.
C21_Witness ==
    /\ Len(captured) = 2
    /\ \E i, j \in 1..2 :
          /\ captured[i].outcome = "sent"
          /\ captured[j].outcome = "dropped"
    /\ bytesSentRef = 2 * OutputLength(FrameLen, CONTEXT_SAMPLE_RATE,
                                       TARGET_SAMPLE_RATE)
    /\ bytesSentRef > 0

\* a step appends a payload message to the wire of the current socket
PayloadTransmitted ==
    /\ wsRef # 0
    /\ wsRef \in DOMAIN sockets'
    /\ Len(sockets'[wsRef].sent) > Len(sockets[wsRef].sent)
    /\ sockets'[wsRef].sent[Len(sockets'[wsRef].sent)].type = "pcm"

\* C22: a transmitted payload logs a checkpoint exactly when the counter
\* passes or reaches a multiple of CHECKPOINT_BYTES, and the checkpoint
\* publishes the counter; without a checkpoint bytesSent is unchanged.
C22_CheckpointOnCrossing ==
    [][PayloadTransmitted
         => /\ checkpoints' \in {checkpoints, checkpoints + 1}
            /\ (checkpoints' = checkpoints + 1)
                 <=> (bytesSentRef' \div CHECKPOINT_BYTES
                        > bytesSentRef \div CHECKPOINT_BYTES)
            /\ checkpoints' # checkpoints => bytesSent' = bytesSentRef'
            /\ checkpoints' = checkpoints => bytesSent' = bytesSent]_vars

\* C22 witness: one checkpoint was logged when the counter passed 51200
\* without stopping on it, and a later payload was sent without one.
C22_Witness ==
    /\ checkpoints = 1
    /\ bytesSent > CHECKPOINT_BYTES
    /\ bytesSent % CHECKPOINT_BYTES # 0
    /\ bytesSentRef > bytesSent
    /\ bytesSentRef \div CHECKPOINT_BYTES = 1

\* C23: a frame that is not silent, delivered while the current socket is
\* open, appends exactly one payload to that socket's wire and changes no
\* other socket; the payload has 2 * floor(n * 16000 / 48000) bytes for a
\* frame of n samples, which is 2730 bytes for 4096 samples.
C23_OnePayloadOfResampledLength ==
    /\ [](2 * OutputLength(4096, CONTEXT_SAMPLE_RATE, TARGET_SAMPLE_RATE)
            = 2730)
    /\ [][(/\ Len(captured') = Len(captured) + 1
           /\ ManagerConnected
           /\ ~WithinSilenceInterval(captured'[Len(captured')].samples))
            => LET frame == captured'[Len(captured')].samples
                   before == sockets[wsRef].sent
                   after == sockets'[wsRef].sent
               IN  /\ Len(after) = Len(before) + 1
                   /\ SubSeq(after, 1, Len(before)) = before
                   /\ after[Len(after)].type = "pcm"
                   /\ Len(after[Len(after)].data)
                        = 2 * ((Len(frame) * TARGET_SAMPLE_RATE)
                                 \div CONTEXT_SAMPLE_RATE)
                   /\ \A w \in SocketIds \ {wsRef} :
                          sockets'[w] = sockets[w]]_vars

\* C23 witness: a frame whose length is not a multiple of 3 was
\* transmitted as the only payload of the open current socket.
C23_Witness ==
    /\ ManagerConnected
    /\ Len(captured) = 1
    /\ Len(captured[1].samples) % 3 # 0
    /\ Len(sockets[wsRef].sent) = 2
    /\ sockets[wsRef].sent[2].type = "pcm"
    /\ Len(sockets[wsRef].sent[2].data) = 2 * (Len(captured[1].samples) \div 3)

\* the 16-bit integer, low byte first, at sample position i of a buffer
Int16At(bytes, i) ==
    LET u == bytes[2 * i - 1] + 256 * bytes[2 * i]
    IN  IF u >= 32768 THEN u - 65536 ELSE u

\* the value the encoder is to write for sample x
ExpectedPcm(x) ==
    IF x <= -SAMPLE_ONE THEN -32768
    ELSE IF x >= SAMPLE_ONE THEN 32767
    ELSE IF x >= 0 THEN TruncDiv(x * 32767, SAMPLE_ONE)
    ELSE TruncDiv(x * 32768, SAMPLE_ONE)

\* C24: the encoder writes two bytes per sample, and the 16-bit value of
\* each is -32768 for samples at or below -1, 32767 for samples at or above
\* 1, the sample scaled by 32767 when it is not negative and by 32768 when
\* it is.
C24_EncoderClampsAndScales ==
    pcmOut # <<>> =>
        /\ Len(pcmOut) = 2 * Len(pcmIn)
        /\ \A j \in 1..Len(pcmOut) : pcmOut[j] \in 0..255
        /\ \A i \in 1..Len(pcmIn) :
              /\ Int16At(pcmOut, i) \in (-32768)..32767
              /\ Int16At(pcmOut, i) = ExpectedPcm(pcmIn[i])

\* C24 witness: an array with a sample above 1 and a sample below -1 was
\* encoded.
C24_Witness ==
    /\ pcmIn = <<2 * SAMPLE_ONE, -2 * SAMPLE_ONE>>
    /\ pcmOut = <<255, 127, 0, 128>>

\* C25: a message of the remote endpoint, JSON or not, is handled without
\* an error and changes nothing of the manager or the pipeline.
C25_InboundChangesNothing ==
    [][inbound' # "none"
         => /\ inbound' \in {"parsed", "ignored"}
            /\ UNCHANGED <<connVars, dispatching, enabled, hasProcessor,
                           processors, checkpoints>>]_vars

\* C25 witness: a malformed message arrived on the open current socket
\* after a payload had been sent on it.
C25_Witness ==
    /\ inbound = "ignored"
    /\ ManagerConnected
    /\ connected
    /\ error = NoError
    /\ bytesSentRef > 0

\* C27: the close event of a socket that is not the manager's current one
\* leaves wsRef and isConnectingRef unchanged.
C27_StaleCloseKeepsHandle ==
    [][(\E w \in (DOMAIN sockets) \ (DOMAIN sockets') :
            wsRef # 0 /\ w # wsRef)
         => (wsRef' = wsRef /\ isConnecting' = isConnecting)]_vars

\* C28: the connectToRobot() call of the effect that runs when the bridge
\* is enabled, the first after a teardown, opens a new connection.
C28_ConnectAfterTeardownOpens ==
    [][(~enabled /\ enabled') => lastConnect' = "opened"]_vars

\* no socket has an open, error or close event awaiting delivery
Quiescent ==
    /\ dispatching = 0
    /\ \A w \in SocketIds : sockets[w].readyState = "OPEN"

\* C29: in a quiescent state state.connected is true exactly when wsRef
\* holds an open socket.
C29_ConnectedMatchesHandle == Quiescent => (connected <=> ManagerConnected)

\* C30: when the bridge is torn down and no socket event is awaiting
\* delivery, no socket the manager created is open or connecting.
C30_NoConnectionAfterTeardown == (~enabled /\ Quiescent) => LiveSockets = {}


\* C26: when the latest remote text has been the qualifying, unsent text T
\* for part of its 1-second window and an update arrives that leaves the
\* latest remote text equal to T (a local event, a repeated remote event),
\* the time T has already waited still counts: T is dispatched when the
\* window that began with T ends, not a full DEBOUNCE_MS after the update.
C26_StableTextDispatched ==
    [][(/\ relayMounted
        /\ InWindow
        /\ timers[timerRef] > 0
        /\ burst.last \notin sentTexts
        /\ lastUpdate'.kind = "qualified"
        /\ Trim(lastUpdate'.last) = burst.last)
       => (/\ timerRef' \in DOMAIN timers'
           /\ timers'[timerRef'] >= timers[timerRef])]_vars

\* C31: with two remote audio tracks subscribed and the processor attached
\* to one of them, the unsubscribe event of the other track leaves the
\* processor attached to its track, still in the audio graph.
C31_OtherUnsubscribeKeepsProcessor ==
    [][(/\ enabled
        /\ processorTrack \in AudioTracks
        /\ processorTrack \in processors
        /\ \E other \in subscribed \ {processorTrack} :
              subscribed' = subscribed \ {other})
       => (/\ hasProcessor'
           /\ processorTrack' = processorTrack
           /\ processorTrack \in processors')]_vars


\* the messages a step appends to the wire of socket w
NewMessages(w) ==
    IF w \in DOMAIN sockets'
    THEN SubSeq(sockets'[w].sent, Len(sockets[w].sent) + 1,
                Len(sockets'[w].sent))
    ELSE <<>>

\* C32: while enabled is false no processor is attached; a step that
\* begins and ends with enabled false calls connectToRobot() not at all,
\* creates no socket, processes no frame and sends no payload; the step
\* that makes enabled false sends nothing but one finish message.
C32_DisabledIsInert ==
    /\ [](~enabled => (/\ ~hasProcessor
                       /\ processorTrack = NoTrack
                       /\ processors = {}))
    /\ [][(~enabled /\ ~enabled')
            => /\ lastConnect' = "none"
               /\ lastAttach' = "none"
               /\ DOMAIN sockets' \subseteq DOMAIN sockets
               /\ captured' = captured
               /\ bytesSentRef' = bytesSentRef
               /\ \A w \in DOMAIN sockets :
                     \A k \in 1..Len(NewMessages(w)) :
                         NewMessages(w)[k].type # "pcm"]_vars
    /\ [][(enabled /\ ~enabled')
            => /\ lastConnect' = "none"
               /\ DOMAIN sockets' = DOMAIN sockets
               /\ \A w \in DOMAIN sockets :
                     /\ NewMessages(w) \in {<<>>, <<Finish>>}
                     /\ NewMessages(w) # <<>> => w = wsRef]_vars

\* C32 witness: the bridge was disabled while its socket was open and a
\* frame had been sent, the teardown put finish on the wire, and a second
\* audio track was subscribed while disabled without anything attached.
C32_Witness ==
    /\ ~enabled
    /\ subscribed = AudioTracks
    /\ processors = {}
    /\ lastConnect = "none"
    /\ \E w \in DOMAIN sockets :
          /\ sockets[w].readyState = "CLOSING"
          /\ Len(sockets[w].sent) = 3
          /\ sockets[w].sent[2].type = "pcm"
          /\ sockets[w].sent[3] = Finish


=============================================================================
